---- MODULE Spec2Model ----
\* Template-acquisition and project-initialization workflow of the scaffolding
\* CLI: init (flag form, lib/index.js; interactive form), creatApp and install.
\* One action is the code that runs between two suspension points (awaits or
\* events); external processes and prompts answer nondeterministically.
EXTENDS Integers, Sequences, FiniteSets, TLC

\* ---------------------------------------------------------------- bounds
\* longest history of an upstream template repository
MaxUpstreamCommits == 2
\* largest exit code a spawned installer reports
MaxExitCode == 2

\* ---------------------------------------------------------------- values
\* the JavaScript value undefined
Undefined == "<undefined>"

\* a test for undefined alone, which lets the empty string through
FalsyOnlyUndefined(s) == s = Undefined

\* JavaScript falsiness of a string-or-undefined value
Falsy(s) == s = "" \/ s = Undefined

\* Array.prototype.join
RECURSIVE Join(_, _)
Join(args, sep) ==
  IF args = <<>> THEN ""
  ELSE IF Len(args) = 1 THEN args[1]
  ELSE args[1] \o sep \o Join(Tail(args), sep)

\* String.prototype.includes, on text held as a sequence of words
Includes(text, sub) ==
  \E i \in 0..(Len(text) - Len(sub)) : SubSeq(text, i + 1, i + Len(sub)) = sub

\* ---------------------------------------------------------------- catalogs
\* catalog of the flag form
templeUrls ==
  [k \in {"react-starter"} |-> "https://github.com/webpack/react-starter.git"]

\* catalog of the interactive form
templateUrls ==
  "react-starter" :> "https://github.com/webpack/react-starter.git" @@
  "react-material-admin-template" :> "https://github.com/rafaelhz/react-material-admin-template.git" @@
  "react-frame-application" :> "https://github.com/zwlzwt/react-frame-application.git"

\* a lookup that ignores the key and hands out the entry of the default template
LookupDefault(catalog, key) == catalog["react-starter"]

\* catalog[key], undefined for a missing key
Lookup(catalog, key) == IF key \in DOMAIN catalog THEN catalog[key] ELSE Undefined

\* Object.keys(templateUrls): the keys in insertion order
templateUrlsKeys ==
  <<"react-starter", "react-material-admin-template", "react-frame-application">>

\* a menu that also offers a template the catalog does not hold
templateSelectQuestionStale ==
  <<"react-starter", "react-material-admin-template", "react-frame-application",
    "micro-starter", "custom">>

\* values of the menu choices, in menu order
templateSelectQuestion ==
  <<"react-starter", "react-material-admin-template", "react-frame-application", "custom">>

\* values the -t/--template option takes: its default react-starter, the
\* micro-starter its help text offers, and another name
TemplateOptions == {"react-starter", "micro-starter", "vue-starter"}

\* answers typed at the two free-text prompts
CustomNames == {"", "foo", "bar", "foo/README.md"}
CustomUrls == {"", "https://example.com/foo.git", "not-a-repository"}

\* the directory `git clone <url>` creates, undefined when the url cannot be cloned
GitHumanish(url) ==
  CASE url = "https://github.com/webpack/react-starter.git" -> "react-starter"
    [] url = "https://github.com/rafaelhz/react-material-admin-template.git" -> "react-material-admin-template"
    [] url = "https://github.com/zwlzwt/react-frame-application.git" -> "react-frame-application"
    [] url = "https://example.com/foo.git" -> "foo"
    [] OTHER -> Undefined

\* ---------------------------------------------------------------- paths
\* a project-directory argument: undefined, or a relative or absolute path
NoName == [defined |-> FALSE, abs |-> FALSE, segs |-> <<>>]
ProjectNames ==
  { NoName,
    [defined |-> TRUE, abs |-> FALSE, segs |-> <<"my-app">>],
    [defined |-> TRUE, abs |-> FALSE, segs |-> <<"My App">>],
    [defined |-> TRUE, abs |-> FALSE, segs |-> <<"Bad Dir", "my-app">>],
    [defined |-> TRUE, abs |-> FALSE, segs |-> <<"my-app", "My App">>],
    [defined |-> TRUE, abs |-> TRUE,  segs |-> <<"abs", "my-app">>],
    [defined |-> TRUE, abs |-> FALSE, segs |-> <<"my-app", "..">>] }

\* working directories of the process: the filesystem root and /w
WorkingDirs == { <<>>, <<"w">> }

\* path normalisation: "." is dropped, ".." removes the segment before it
RECURSIVE Normalize(_, _)
Normalize(done, rest) ==
  IF rest = <<>> THEN done
  ELSE IF Head(rest) = "." THEN Normalize(done, Tail(rest))
  ELSE IF Head(rest) = ".."
    THEN Normalize(IF done = <<>> THEN <<>> ELSE SubSeq(done, 1, Len(done) - 1), Tail(rest))
  ELSE Normalize(Append(done, Head(rest)), Tail(rest))

\* path.resolve(name) against the working directory wd
Resolve(wd, name) ==
  IF name.abs THEN Normalize(<<>>, name.segs) ELSE Normalize(<<>>, wd \o name.segs)

\* the resolved path as a whole in place of its final segment
BasenameWholePath(path) == Join(path, "/")

\* path.basename
Basename(path) == IF path = <<>> THEN "" ELSE path[Len(path)]

\* the directory the template literal `./${name}` names: always below wd
DotSlash(wd, name) == Normalize(<<>>, wd \o name.segs)

\* validate-npm-package-name on the sample base names
validateProjectName(appName) ==
  CASE appName \in {"my-app", "w", "foo"} ->
         [validForNewPackages |-> TRUE, errors |-> <<>>, warnings |-> <<>>]
    [] appName = "" ->
         [validForNewPackages |-> FALSE,
          errors |-> <<"name length must be greater than zero">>, warnings |-> <<>>]
    [] appName = "http" ->
         [validForNewPackages |-> FALSE, errors |-> <<>>,
          warnings |-> <<"http is a core module name">>]
    [] OTHER ->
         [validForNewPackages |-> FALSE,
          errors |-> <<"name can only contain URL-friendly characters">>,
          warnings |-> <<"name can no longer contain capital letters">>]

\* ---------------------------------------------------------------- filesystem
Absent == [kind |-> "absent", entries |-> {}]
EmptyDir == [kind |-> "dir", entries |-> {}]
DirStates ==
  { Absent, [kind |-> "file", entries |-> {}], EmptyDir,
    [kind |-> "dir", entries |-> {"sentinel"}] }

\* a plain mkdirSync in place of ensureDirSync: throws whenever the path exists
ensureDirSyncThrowsIfExists(f, p) == f[p].kind # "absent"

\* fs.ensureDirSync throws when the path exists and is no directory
ensureDirSyncThrows(f, p) == f[p].kind = "file"

\* fs.ensureDirSync: creates the directory when absent, else leaves it alone
ensureDirSync(f, p) == IF f[p].kind = "absent" THEN [f EXCEPT ![p] = EmptyDir] ELSE f

\* emptyDirSync that removes nothing
emptyDirSyncKeeps(f, p) == IF f[p].kind = "absent" THEN [f EXCEPT ![p] = EmptyDir] ELSE f

\* fs.emptyDirSync: removes every entry (creates the directory when absent)
emptyDirSync(f, p) == [f EXCEPT ![p] = EmptyDir]

\* what fs.stat finds at dir/tName
StatKind(f, dir, tName, repo) ==
  IF f[dir].kind # "dir" THEN "absent"
  ELSE IF tName = repo /\ repo \in f[dir].entries THEN "dir"
  ELSE IF tName = repo \o "/README.md" /\ repo \in f[dir].entries THEN "file"
  ELSE IF tName \in f[dir].entries THEN "file"
  ELSE "absent"

\* ---------------------------------------------------------------- external processes
\* results of `git --version`: exit code, standard output and diagnostic stream
Stdouts == { <<>>, <<"git", "version", "2.30.0">>, <<"version", "git">> }
Stderrs == { <<>>, <<"warning:", "unsupported", "locale">> }
ProbeOutcomes ==
  { [code |-> c, stdout |-> o, stderr |-> e] : c \in {0, 1}, o \in Stdouts, e \in Stderrs }
  \cup { [code |-> 127, stdout |-> <<>>, stderr |-> <<"sh:", "git:", "not", "found">>] }

\* the promisified exec rejects when the command does not exit with code 0
ExecRejects(res) == res.code # 0

\* stdout && stdout.includes('git version')
HasMarker(stdout) == stdout # <<>> /\ Includes(stdout, <<"git", "version">>)

\* the shell sequence of the history reset, joined by &&
ResetCommands ==
  <<"rm -rf .git", "git init", "git add .", "git commit -m \"create front-end app\"">>
CommitMessage == "create front-end app"

\* a reset that leaves the cloned .git in place: the commit lands on the upstream history
ResetLogKeepsHistory(log, n) ==
  IF n < Len(ResetCommands) THEN log ELSE Append(log, CommitMessage)

\* history of the nested repository after the first n commands of the sequence ran
ResetLog(log, n) ==
  IF n = 0 THEN log
  ELSE IF n < Len(ResetCommands) THEN <<>>
  ELSE <<CommitMessage>>

\* history of a freshly cloned template with n upstream commits
UpstreamLog(n) == [i \in 1..n |-> "upstream commit"]

\* how the installer child ends: with an exit code, or killed by a signal, and
\* then the listener's code is null (exited is FALSE and code is not read)
CloseEvents ==
  { [exited |-> TRUE, code |-> c] : c \in 0..MaxExitCode }
  \cup { [exited |-> FALSE, code |-> 0] }

\* ---------------------------------------------------------------- install
command == "npm"
args(dependencies) == <<"install", "--save", "--loglevel", "error">> \o dependencies

\* a listener that tests code > 0: a child killed by a signal (code null) resolves
installOnCloseCodePositive(ev) ==
  IF ev.exited /\ ev.code > 0
    THEN << [state |-> "rejected",
             value |-> [command |-> command \o " " \o Join(args(<<>>), " ")]] >>
    ELSE << [state |-> "fulfilled"] >>

\* the calls the 'close' listener makes on the promise, in order
installOnClose(ev) ==
  IF ~(ev.exited /\ ev.code = 0)
    THEN << [state |-> "rejected",
             value |-> [command |-> command \o " " \o Join(args(<<>>), " ")]] >>
    ELSE << [state |-> "fulfilled"] >>

\* ---------------------------------------------------------------- state
VARIABLES
  nodeMajor,     \* major version of the running Node
  cwd,           \* process.cwd()
  mode,          \* "flag" (lib/index.js) or "interactive"
  projectName,   \* the positional argument
  template,      \* options.template of the flag form
  fs0,           \* the filesystem when the process starts
  pc,            \* where the process is suspended
  prompts,       \* prompts shown to the user, in order
  selectAnswer,  \* answer to templateSelectQuestion
  cusName,       \* answer to templateNameQuestion
  cusUrl,        \* answer to templateUrlQuestion
  templateName,  \* creatApp's arguments
  templateUrl,
  fs,            \* target directory and clone directory
  gitLog,        \* commit messages of the cloned repository
  trace,         \* workflow states entered, in order
  fsOps,         \* filesystem calls made, in order
  procs,         \* external processes started, in order
  completed,     \* how many of them have completed
  statted,       \* paths handed to fs.stat, in order
  probe,         \* outcome of `git --version`
  installP,      \* the promise install() returned
  settleCalls,   \* resolve/reject calls made on it
  closeEv,       \* the 'close' event of the installer child
  console,       \* lines written to the console
  creatAppP,     \* the promise creatApp() returned
  exitCode       \* exit status of the process

inputs == <<nodeMajor, cwd, mode, projectName, template, fs0>>
answers == <<prompts, selectAnswer, cusName, cusUrl>>
workflow == <<templateName, templateUrl, fs, gitLog, trace, fsOps, procs, completed,
              statted, probe, installP, settleCalls, closeEv, creatAppP>>
vars == <<inputs, pc, answers, workflow, console, exitCode>>

NodeMajors == {8, 12, 16}
Running == "running"

\* the directory ensureDirSync(name) and emptyDirSync(name) act on
TargetDir == Resolve(cwd, projectName)
\* the directory `./${name}`, the working directory of the clone
CloneDir == DotSlash(cwd, projectName)
\* `${name}/${templateName}`: stat-checked, reset and installed into
NestedDir == Append(CloneDir, templateName)

Init ==
  /\ nodeMajor \in NodeMajors
  /\ cwd \in WorkingDirs
  /\ mode \in {"flag", "interactive"}
  /\ projectName \in ProjectNames
  /\ template \in (IF mode = "flag" THEN TemplateOptions ELSE {"react-starter"})
  /\ fs0 \in { f \in [{TargetDir, CloneDir} -> DirStates] :
                 \A p \in DOMAIN f :
                   /\ p = cwd => f[p].kind = "dir"
                   /\ projectName.defined \/ f[p] = EmptyDir }
  /\ fs = fs0
  /\ pc = "init"
  /\ prompts = <<>>
  /\ selectAnswer = Undefined /\ cusName = Undefined /\ cusUrl = Undefined
  /\ templateName = Undefined /\ templateUrl = Undefined
  /\ gitLog = <<>>
  /\ trace = <<>> /\ fsOps = <<>> /\ procs = <<>>
  /\ completed = 0 /\ statted = <<>>
  /\ probe = [done |-> FALSE]
  /\ installP = [state |-> "none"] /\ settleCalls = <<>>
  /\ closeEv = [seen |-> FALSE]
  /\ console = <<>>
  /\ creatAppP = "none"
  /\ exitCode = Running

\* ---------------------------------------------------------------- handlers
\* checkAppName without its process.exit(1): the messages are printed and creatApp goes on
checkAppNameNoExit(appName) ==
  LET validationResult == validateProjectName(appName) IN
  [exits |-> FALSE, status |-> 0,
   printed |-> IF validationResult.validForNewPackages THEN <<>>
               ELSE validationResult.errors \o validationResult.warnings]

\* checkAppName: what it prints, and whether it ends the process (with which status)
checkAppName(appName) ==
  LET validationResult == validateProjectName(appName) IN
  IF ~validationResult.validForNewPackages
    THEN [exits |-> TRUE, status |-> 1,
          printed |-> <<"Cannot create a project named">>
                      \o validationResult.errors \o validationResult.warnings
                      \o <<"Please choose a different project name.">>]
    ELSE [exits |-> FALSE, status |-> 0, printed |-> <<>>]

\* console.error of each line
ErrorLines(lines) == [i \in 1..Len(lines) |-> [stream |-> "error", what |-> lines[i]]]

\* exit status of a process whose promise rejection nobody handles: Node 15 and
\* later end with status 1, earlier versions warn and end normally
UnhandledRejectionExitCode == IF nodeMajor >= 15 THEN 1 ELSE 0

\* a catch block that throws the error again: nothing is logged, creatApp rejects
CatchRethrows(lines, err) ==
  [console |-> lines, creatAppP |-> "rejected", exitCode |-> UnhandledRejectionExitCode]

\* the catch block of creatApp: the error is written to the console and the
\* function returns normally
Catch(lines, err) ==
  [console |-> Append(lines, [stream |-> "error", what |-> "caught", err |-> err]),
   creatAppP |-> "fulfilled",
   exitCode |-> 0]

\* the process ends through the catch block
Caught(err) ==
  /\ console' = Catch(console, err).console
  /\ creatAppP' = Catch(console, err).creatAppP
  /\ exitCode' = Catch(console, err).exitCode
  /\ trace' = Append(trace, "Aborted")
  /\ pc' = "exited"

\* creatApp up to its first await
CreatApp(name, tName, tUrl) ==
  LET root == Resolve(cwd, name)
      appName == Basename(root)
      warned == IF nodeMajor < 10
                  THEN Append(console, [stream |-> "log", what |-> "unsupported Node version"])
                  ELSE console
      checked == checkAppName(appName)
  IN
  /\ templateName' = tName
  /\ templateUrl' = tUrl
  /\ UNCHANGED <<inputs, gitLog, completed, statted, probe, installP, settleCalls, closeEv>>
  /\ IF checked.exits THEN
       /\ console' = warned \o ErrorLines(checked.printed)
       /\ trace' = <<"Start", "Aborted">>
       /\ pc' = "exited"
       /\ exitCode' = checked.status
       /\ creatAppP' = "pending"
       /\ UNCHANGED <<fs, fsOps, procs>>
     ELSE IF ensureDirSyncThrows(fs, root) THEN
       /\ console' = warned
       /\ trace' = <<"Start", "NameValidated", "Aborted">>
       /\ fsOps' = <<[op |-> "ensureDirSync", path |-> root]>>
       /\ pc' = "exited"
       /\ exitCode' = UnhandledRejectionExitCode
       /\ creatAppP' = "rejected"
       /\ UNCHANGED <<fs, procs>>
     ELSE
       /\ console' = Append(warned, [stream |-> "log", what |-> "Creating a new React app"])
       /\ trace' = <<"Start", "NameValidated", "DirectoryCreated">>
       /\ fs' = ensureDirSync(fs, root)
       /\ fsOps' = <<[op |-> "ensureDirSync", path |-> root]>>
       /\ procs' = <<[cmd |-> "git --version", cwd |-> cwd]>>
       /\ pc' = "gitVersion"
       /\ creatAppP' = "pending"
       /\ UNCHANGED exitCode

\* the process ends before creatApp is called
ExitBeforeWorkflow(lines) ==
  /\ console' = console \o lines
  /\ pc' = "exited"
  /\ exitCode' = 0
  /\ UNCHANGED <<inputs, workflow>>

Usage ==
  << [stream |-> "error", what |-> "Please specify the project directory:"],
     [stream |-> "log", what |-> "usage and example"] >>

\* init of the flag form
InitFlag ==
  /\ pc = "init" /\ mode = "flag"
  /\ UNCHANGED answers
  /\ IF ~projectName.defined
       THEN ExitBeforeWorkflow(Usage)
       ELSE CreatApp(projectName, template, Lookup(templeUrls, template))

\* init of the interactive form without the test for a missing name
InitInteractiveNoCheck ==
  /\ pc = "init" /\ mode = "interactive"
  /\ UNCHANGED <<selectAnswer, cusName, cusUrl>>
  /\ prompts' = Append(prompts, "templateSelectQuestion")
  /\ pc' = "select"
  /\ UNCHANGED <<inputs, workflow, console, exitCode>>

\* init of the interactive form, up to the menu
InitInteractive ==
  /\ pc = "init" /\ mode = "interactive"
  /\ UNCHANGED <<selectAnswer, cusName, cusUrl>>
  /\ IF ~projectName.defined
       THEN /\ ExitBeforeWorkflow(Usage)
            /\ UNCHANGED prompts
       ELSE /\ prompts' = Append(prompts, "templateSelectQuestion")
            /\ pc' = "select"
            /\ UNCHANGED <<inputs, workflow, console, exitCode>>

\* the menu answers with a catalog entry: qa returns and init calls creatApp
SelectTemplate(answer) ==
  /\ pc = "select" /\ answer # "custom"
  /\ selectAnswer' = answer
  /\ UNCHANGED <<prompts, cusName, cusUrl>>
  /\ CreatApp(projectName, answer, Lookup(templateUrls, answer))

\* the menu answers "custom": qa asks for the template name
SelectCustom ==
  /\ pc = "select"
  /\ selectAnswer' = "custom"
  /\ prompts' = Append(prompts, "templateNameQuestion")
  /\ pc' = "inputName"
  /\ UNCHANGED <<inputs, cusName, cusUrl, workflow, console, exitCode>>

\* the name prompt answers: qa asks for the url
InputName(answer) ==
  /\ pc = "inputName"
  /\ cusName' = answer
  /\ prompts' = Append(prompts, "templateUrlQuestion")
  /\ pc' = "inputUrl"
  /\ UNCHANGED <<inputs, selectAnswer, cusUrl, workflow, console, exitCode>>

\* the url prompt answers, with the two custom answers handed over in the
\* wrong order
InputUrlSwapped(answer) ==
  /\ pc = "inputUrl"
  /\ cusUrl' = answer
  /\ UNCHANGED <<prompts, selectAnswer, cusName>>
  /\ IF Falsy(cusName) \/ Falsy(answer)
       THEN ExitBeforeWorkflow(<<[stream |-> "log", what |-> "You must input your own template!!!"]>>)
       ELSE CreatApp(projectName, answer, cusName)

\* the url prompt answers: qa returns and init decides
InputUrl(answer) ==
  /\ pc = "inputUrl"
  /\ cusUrl' = answer
  /\ UNCHANGED <<prompts, selectAnswer, cusName>>
  /\ IF Falsy(cusName) \/ Falsy(answer)
       THEN ExitBeforeWorkflow(<<[stream |-> "log", what |-> "You must input your own template!!!"]>>)
       ELSE CreatApp(projectName, cusName, answer)

\* errors thrown by the awaited calls
ExecError(cmd, code) == [name |-> "Error", cmd |-> cmd, code |-> code]
StatError == [name |-> "ENOENT", syscall |-> "stat"]
SpawnError == [name |-> "ENOTDIR", syscall |-> "spawn npm"]

\* `git --version` completes: creatApp resumes after its first await
GitVersionReturns(res) ==
  /\ pc = "gitVersion"
  /\ probe' = [done |-> TRUE, code |-> res.code, stdout |-> res.stdout, stderr |-> res.stderr]
  /\ completed' = completed + 1
  /\ UNCHANGED <<inputs, answers, templateName, templateUrl, gitLog, statted, installP,
                 settleCalls, closeEv>>
  /\ IF ExecRejects(res) THEN
       \* the await throws outside the try block: creatApp rejects
       /\ trace' = Append(trace, "Aborted")
       /\ creatAppP' = "rejected"
       /\ pc' = "exited"
       /\ exitCode' = UnhandledRejectionExitCode
       /\ UNCHANGED <<fs, fsOps, procs, console>>
     ELSE
       LET warned == IF res.stderr # <<>>
                       THEN Append(console, [stream |-> "error", what |-> "stderr", err |-> res.stderr])
                       ELSE console
       IN
       IF HasMarker(res.stdout) THEN
         /\ console' = Append(warned, [stream |-> "log", what |-> "now clone the template"])
         /\ fs' = emptyDirSync(fs, TargetDir)
         /\ fsOps' = Append(fsOps, [op |-> "emptyDirSync", path |-> TargetDir])
         /\ procs' = Append(procs, [cmd |-> "git clone", cwd |-> CloneDir, url |-> templateUrl])
         /\ trace' = Append(trace, "VcsProbed")
         /\ pc' = "clone"
         /\ UNCHANGED <<creatAppP, exitCode>>
       ELSE
         /\ console' = warned
         /\ trace' = trace \o <<"VcsProbed", "Aborted">>
         /\ creatAppP' = "fulfilled"
         /\ pc' = "exited"
         /\ exitCode' = 0
         /\ UNCHANGED <<fs, fsOps, procs>>

\* whether `git clone ${templateUrl}` can succeed in CloneDir
CanClone ==
  /\ fs[CloneDir].kind = "dir"
  /\ GitHumanish(templateUrl) # Undefined
  /\ GitHumanish(templateUrl) \notin fs[CloneDir].entries

\* a clone that is started again after it failed
CloneReturnsRetries(ok, commits) ==
  /\ pc = "clone"
  /\ completed' = completed + 1
  /\ UNCHANGED <<inputs, answers, templateName, templateUrl, fsOps, probe,
                 installP, settleCalls, closeEv>>
  /\ IF ok /\ CanClone THEN
       /\ fs' = [fs EXCEPT ![CloneDir].entries = @ \cup {GitHumanish(templateUrl)}]
       /\ gitLog' = UpstreamLog(commits)
       /\ console' = Append(console, [stream |-> "log", what |-> "Downloading success!!!"])
       /\ trace' = Append(trace, "Cloned")
       /\ statted' = Append(statted, NestedDir)
       /\ pc' = "stat"
       /\ UNCHANGED <<procs, creatAppP, exitCode>>
     ELSE
       /\ console' = Catch(console, ExecError("git clone", 128)).console
       /\ procs' = Append(procs, [cmd |-> "git clone", cwd |-> CloneDir, url |-> templateUrl])
       /\ trace' = Append(trace, "VcsProbed")
       /\ pc' = "clone"
       /\ UNCHANGED <<fs, gitLog, statted, creatAppP, exitCode>>

\* a clone whose failure is cleaned up after: the catch block removes the
\* target directory again
CloneReturnsCleansUp(ok, commits) ==
  /\ pc = "clone"
  /\ completed' = completed + 1
  /\ UNCHANGED <<inputs, answers, templateName, templateUrl, procs, probe,
                 installP, settleCalls, closeEv>>
  /\ IF ok /\ CanClone THEN
       /\ fs' = [fs EXCEPT ![CloneDir].entries = @ \cup {GitHumanish(templateUrl)}]
       /\ gitLog' = UpstreamLog(commits)
       /\ console' = Append(console, [stream |-> "log", what |-> "Downloading success!!!"])
       /\ trace' = Append(trace, "Cloned")
       /\ statted' = Append(statted, NestedDir)
       /\ pc' = "stat"
       /\ UNCHANGED <<fsOps, creatAppP, exitCode>>
     ELSE
       /\ Caught(ExecError("git clone", 128))
       /\ fs' = [fs EXCEPT ![TargetDir] = Absent]
       /\ fsOps' = Append(fsOps, [op |-> "removeSync", path |-> TargetDir])
       /\ UNCHANGED <<gitLog, statted>>

\* the clone completes
CloneReturns(ok, commits) ==
  /\ pc = "clone"
  /\ completed' = completed + 1
  /\ UNCHANGED <<inputs, answers, templateName, templateUrl, fsOps, procs, probe,
                 installP, settleCalls, closeEv>>
  /\ IF ok /\ CanClone THEN
       /\ fs' = [fs EXCEPT ![CloneDir].entries = @ \cup {GitHumanish(templateUrl)}]
       /\ gitLog' = UpstreamLog(commits)
       /\ console' = Append(console, [stream |-> "log", what |-> "Downloading success!!!"])
       /\ trace' = Append(trace, "Cloned")
       /\ statted' = Append(statted, NestedDir)
       /\ pc' = "stat"
       /\ UNCHANGED <<creatAppP, exitCode>>
     ELSE
       /\ Caught(ExecError("git clone", 128))
       /\ UNCHANGED <<fs, gitLog, statted>>

\* install up to the return of the promise: spawn throws when the working
\* directory is no directory; a child that cannot be started emits 'error',
\* for which there is no listener, and the process dies of it
CallInstall(lines, entered, started) ==
  /\ settleCalls' = settleCalls
  /\ IF StatKind(fs, CloneDir, templateName, GitHumanish(templateUrl)) # "dir" THEN
       /\ installP' = [state |-> "rejected", value |-> SpawnError]
       /\ console' = Catch(lines, SpawnError).console
       /\ creatAppP' = Catch(lines, SpawnError).creatAppP
       /\ exitCode' = Catch(lines, SpawnError).exitCode
       /\ trace' = entered \o <<"DependenciesInstalling", "Aborted">>
       /\ pc' = "exited"
       /\ UNCHANGED procs
     ELSE IF started THEN
       /\ installP' = [state |-> "pending"]
       /\ procs' = Append(procs, [cmd |-> command \o " " \o Join(args(<<>>), " "),
                                  cwd |-> NestedDir])
       /\ console' = Append(lines, [stream |-> "log", what |-> "Install dependencies...."])
       /\ trace' = Append(entered, "DependenciesInstalling")
       /\ pc' = "install"
       /\ UNCHANGED <<creatAppP, exitCode>>
     ELSE
       /\ installP' = [state |-> "pending"]
       /\ console' = lines
       /\ trace' = entered \o <<"DependenciesInstalling", "Aborted">>
       /\ pc' = "exited"
       /\ exitCode' = 1
       /\ UNCHANGED <<procs, creatAppP>>

\* fs.stat completes, with the reset sequence started but not awaited: install
\* is called while the reset is still running
StatReturnsNoAwait(started) ==
  /\ pc = "stat"
  /\ UNCHANGED <<inputs, answers, templateName, templateUrl, fs, gitLog, fsOps, completed,
                 statted, probe, closeEv>>
  /\ LET kind == StatKind(fs, CloneDir, templateName, GitHumanish(templateUrl)) IN
     IF kind = "absent" THEN
       /\ Caught(StatError)
       /\ UNCHANGED <<procs, installP, settleCalls>>
     ELSE IF kind = "dir" THEN
       /\ procs' = procs \o << [cmd |-> Join(ResetCommands, " && "), cwd |-> NestedDir],
                               [cmd |-> command \o " " \o Join(args(<<>>), " "),
                                cwd |-> NestedDir] >>
       /\ installP' = [state |-> "pending"]
       /\ trace' = Append(trace, "DependenciesInstalling")
       /\ pc' = "install"
       /\ UNCHANGED <<console, settleCalls, creatAppP, exitCode>>
     ELSE
       CallInstall(Append(console, [stream |-> "log", what |-> "Delete the origin git"]),
                   trace, started)

\* fs.stat completes
StatReturns(started) ==
  /\ pc = "stat"
  /\ UNCHANGED <<inputs, answers, templateName, templateUrl, fs, gitLog, fsOps, completed,
                 statted, probe, closeEv>>
  /\ LET kind == StatKind(fs, CloneDir, templateName, GitHumanish(templateUrl)) IN
     IF kind = "absent" THEN
       /\ Caught(StatError)
       /\ UNCHANGED <<procs, installP, settleCalls>>
     ELSE IF kind = "dir" THEN
       /\ procs' = Append(procs, [cmd |-> Join(ResetCommands, " && "), cwd |-> NestedDir])
       /\ pc' = "reset"
       /\ UNCHANGED <<trace, console, installP, settleCalls, creatAppP, exitCode>>
     ELSE
       CallInstall(Append(console, [stream |-> "log", what |-> "Delete the origin git"]),
                   trace, started)

\* the history-reset shell sequence completes after n of its commands succeeded
ResetReturns(n, started) ==
  /\ pc = "reset"
  /\ completed' = completed + 1
  /\ UNCHANGED <<inputs, answers, templateName, templateUrl, fs, fsOps, statted, probe,
                 closeEv>>
  /\ gitLog' = ResetLog(gitLog, n)
  /\ IF n < Len(ResetCommands) THEN
       /\ Caught(ExecError(ResetCommands[n + 1], 1))
       /\ UNCHANGED <<procs, installP, settleCalls>>
     ELSE
       CallInstall(Append(console, [stream |-> "log", what |-> "Delete the origin git"]),
                   Append(trace, "HistoryReset"), started)

\* install awaited outside the try block: its rejection escapes creatApp
InstallCloseOutsideTry(ev) ==
  /\ pc = "install"
  /\ completed' = completed + 1
  /\ UNCHANGED <<inputs, answers, templateName, templateUrl, fs, gitLog, fsOps, procs,
                 statted, probe>>
  /\ closeEv' = [seen |-> TRUE, exited |-> ev.exited, code |-> ev.code]
  /\ settleCalls' = installOnClose(ev)
  /\ installP' = installOnClose(ev)[1]
  /\ pc' = "exited"
  /\ UNCHANGED console
  /\ IF installOnClose(ev)[1].state = "rejected" THEN
       /\ trace' = Append(trace, "Aborted")
       /\ creatAppP' = "rejected"
       /\ exitCode' = UnhandledRejectionExitCode
     ELSE
       /\ trace' = Append(trace, "Done")
       /\ creatAppP' = "fulfilled"
       /\ exitCode' = 0

\* a close listener that resolves on code 0 and does nothing otherwise: after a
\* failed install the promise stays pending and creatApp stays suspended
InstallCloseSilentFailure(ev) ==
  /\ pc = "install" /\ ~closeEv.seen
  /\ completed' = completed + 1
  /\ UNCHANGED <<inputs, answers, templateName, templateUrl, fs, gitLog, fsOps, procs,
                 statted, probe>>
  /\ closeEv' = [seen |-> TRUE, exited |-> ev.exited, code |-> ev.code]
  /\ IF installOnClose(ev)[1].state = "rejected" THEN
       /\ settleCalls' = <<>>
       /\ UNCHANGED <<installP, trace, creatAppP, pc, exitCode, console>>
     ELSE
       /\ settleCalls' = installOnClose(ev)
       /\ installP' = installOnClose(ev)[1]
       /\ trace' = Append(trace, "Done")
       /\ creatAppP' = "fulfilled"
       /\ pc' = "exited"
       /\ exitCode' = 0
       /\ UNCHANGED console

\* the installer child closes: the promise settles and creatApp resumes
InstallClose(ev) ==
  /\ pc = "install"
  /\ completed' = completed + 1
  /\ UNCHANGED <<inputs, answers, templateName, templateUrl, fs, gitLog, fsOps, procs,
                 statted, probe>>
  /\ closeEv' = [seen |-> TRUE, exited |-> ev.exited, code |-> ev.code]
  /\ settleCalls' = installOnClose(ev)
  /\ installP' = installOnClose(ev)[1]
  /\ IF installOnClose(ev)[1].state = "rejected" THEN
       Caught(installOnClose(ev)[1].value)
     ELSE
       /\ trace' = Append(trace, "Done")
       /\ creatAppP' = "fulfilled"
       /\ pc' = "exited"
       /\ exitCode' = 0
       /\ UNCHANGED console

Next ==
  \/ InitFlag
  \/ InitInteractive
  \/ \E a \in { templateSelectQuestion[i] : i \in DOMAIN templateSelectQuestion } :
       SelectTemplate(a)
  \/ SelectCustom
  \/ \E a \in CustomNames : InputName(a)
  \/ \E a \in CustomUrls : InputUrl(a)
  \/ \E res \in ProbeOutcomes : GitVersionReturns(res)
  \/ \E ok \in BOOLEAN, n \in 1..MaxUpstreamCommits : CloneReturns(ok, n)
  \/ \E started \in BOOLEAN : StatReturns(started)
  \/ \E n \in 0..Len(ResetCommands), started \in BOOLEAN : ResetReturns(n, started)
  \/ \E ev \in CloseEvents : InstallClose(ev)

Spec == Init /\ [][Next]_vars

\* Spec with the scheduling the run time gives: every external process that
\* was started completes and its callback runs, and so does fs.stat; the user
\* is not required to answer a prompt
FairSpec ==
  /\ Spec
  /\ WF_vars(InitFlag)
  /\ WF_vars(InitInteractive)
  /\ WF_vars(\E res \in ProbeOutcomes : GitVersionReturns(res))
  /\ WF_vars(\E ok \in BOOLEAN, n \in 1..MaxUpstreamCommits : CloneReturns(ok, n))
  /\ WF_vars(\E started \in BOOLEAN : StatReturns(started))
  /\ WF_vars(\E n \in 0..Len(ResetCommands), started \in BOOLEAN : ResetReturns(n, started))
  /\ WF_vars(\E ev \in CloseEvents : InstallClose(ev))

\* ---------------------------------------------------------------- properties
Range(seq) == { seq[i] : i \in DOMAIN seq }
Last(seq) == seq[Len(seq)]
\* the commands of the external processes started so far
Started == { procs[i].cmd : i \in DOMAIN procs }
\* the filesystem calls made so far
Called == { fsOps[i].op : i \in DOMAIN fsOps }
InstallCommand == "npm install --save --loglevel error"
ResetCommand == Join(ResetCommands, " && ")
\* the base name of the requested directory violates the naming rules
InvalidName ==
  /\ projectName.defined
  /\ ~validateProjectName(Basename(Resolve(cwd, projectName))).validForNewPackages

\* C1: when the base name of the project name violates the package-naming rules,
\* creatApp ends the process with status 1 during validation and nothing later
\* happens: no filesystem call, no directory created, no external process, no install
C1_InvalidNameExits ==
  (trace # <<>> /\ InvalidName) =>
    /\ pc = "exited" /\ exitCode = 1
    /\ trace = <<"Start", "Aborted">>
    /\ fsOps = <<>> /\ procs = <<>>
    /\ fs = fs0
    /\ installP.state = "none"
    /\ \E i \in DOMAIN console : console[i].stream = "error"

C1_Witness ==
  /\ trace # <<>> /\ InvalidName
  /\ fs0[TargetDir].kind = "absent"
  /\ exitCode = 1

\* order of the workflow states
Rank ==
  "Start" :> 0 @@ "NameValidated" :> 1 @@ "DirectoryCreated" :> 2 @@ "VcsProbed" :> 3 @@
  "Cloned" :> 4 @@ "HistoryReset" :> 5 @@ "DependenciesInstalling" :> 6 @@
  "Done" :> 7 @@ "Aborted" :> 8
Terminal == {"Done", "Aborted"}
\* the workflow state in which creatApp waits at each suspension point
WaitsIn ==
  "gitVersion" :> "DirectoryCreated" @@ "clone" :> "VcsProbed" @@ "stat" :> "Cloned" @@
  "reset" :> "Cloned" @@ "install" :> "DependenciesInstalling"

\* C2: the workflow states are entered only in the order Start, NameValidated,
\* DirectoryCreated, VcsProbed, Cloned, HistoryReset, DependenciesInstalling, Done:
\* none after a later one, none twice; Done and Aborted are entered last, a run
\* that has ended is in one of them, and a run still waiting is in neither
C2_StepOrder ==
  /\ \A i, j \in DOMAIN trace : i < j => Rank[trace[i]] < Rank[trace[j]]
  /\ \A i \in DOMAIN trace : trace[i] \in Terminal => i = Len(trace)
  /\ trace # <<>> => trace[1] = "Start"
  /\ (trace # <<>> /\ pc = "exited") => Last(trace) \in Terminal
  /\ pc \in DOMAIN WaitsIn => Last(trace) = WaitsIn[pc]
  /\ pc \in {"init", "select", "inputName", "inputUrl"} => trace = <<>>

C2_Witness ==
  /\ pc = "exited"
  /\ trace = <<"Start", "NameValidated", "DirectoryCreated", "VcsProbed", "Cloned",
               "HistoryReset", "DependenciesInstalling", "Done">>

\* C3 as stated: a run that validated the name and ensured the directory has
\* emptied it by the time it ends, whatever the version query reported
C3_EmptiedWhateverProbe ==
  (pc = "exited" /\ "DirectoryCreated" \in Range(trace) /\ probe.done /\ probe.code = 0)
    => "emptyDirSync" \in Called

\* C3, amended: after validation the directory is ensured, without error when it
\* exists as a directory or is absent, before the version query; it is emptied
\* exactly when the query resolves with the marker on its standard output, after
\* the query and before the clone, and never otherwise
C3_EmptiedOnlyAfterMarker ==
  /\ ("NameValidated" \in Range(trace) /\ fs0[TargetDir].kind # "file") =>
       /\ "DirectoryCreated" \in Range(trace)
       /\ fs[TargetDir].kind = "dir"
       /\ fsOps[1] = [op |-> "ensureDirSync", path |-> TargetDir]
       /\ procs[1].cmd = "git --version"
  /\ "emptyDirSync" \in Called <=>
       (probe.done /\ probe.code = 0 /\ Includes(probe.stdout, <<"git", "version">>))
  /\ "emptyDirSync" \in Called =>
       /\ fsOps = << [op |-> "ensureDirSync", path |-> TargetDir],
                     [op |-> "emptyDirSync", path |-> TargetDir] >>
       /\ "git clone" \in Started
  /\ "git clone" \in Started => "emptyDirSync" \in Called
  /\ (pc = "exited" /\ "DirectoryCreated" \in Range(trace) /\ "emptyDirSync" \notin Called) =>
       fs[TargetDir].entries = fs0[TargetDir].entries

C3_Witness ==
  /\ pc = "exited"
  /\ probe.done /\ probe.code = 0 /\ ~HasMarker(probe.stdout)
  /\ "sentinel" \in fs0[TargetDir].entries
  /\ "sentinel" \in fs[TargetDir].entries

C5_SilentStop ==
  (pc = "exited" /\ probe.done /\ (probe.code # 0 \/ ~HasMarker(probe.stdout))) =>
    /\ "git clone" \notin Started
    /\ installP.state = "none"
    /\ creatAppP # "rejected"
    /\ exitCode = 0

\* C6 as stated: the clone is attempted if and only if the standard output of
\* the version query contains the marker, whatever is on its diagnostic stream
C6_CloneIffMarker ==
  probe.done => ("git clone" \in Started <=> HasMarker(probe.stdout))

\* the errors the catch block wrote to the console
CaughtErrors ==
  { console[i].err : i \in { k \in DOMAIN console : console[k].what = "caught" } }
\* the clone, the stat or the history reset failed: the clone was started and
\* the run ended without calling install
FailedBeforeInstall ==
  /\ pc = "exited"
  /\ "git clone" \in Started
  /\ "DependenciesInstalling" \notin Range(trace)

\* C7: install is called only after the clone and the stat succeeded and the
\* history reset, when it ran, succeeded; when one of the three fails the error
\* is logged by the catch block, creatApp fulfils, the installer is never
\* started and the exit status is 0
C7_InstallOnlyAfterSuccess ==
  /\ "DependenciesInstalling" \in Range(trace) =>
       /\ "Cloned" \in Range(trace)
       /\ GitHumanish(templateUrl) \in fs[CloneDir].entries
       /\ StatKind(fs, CloneDir, templateName, GitHumanish(templateUrl)) # "absent"
       /\ ResetCommand \in Started => "HistoryReset" \in Range(trace)
       /\ CaughtErrors \subseteq {SpawnError, [command |-> InstallCommand]}
  /\ FailedBeforeInstall =>
       /\ Last(console).stream = "error" /\ Last(console).what = "caught"
       /\ Cardinality(CaughtErrors) = 1
       /\ creatAppP = "fulfilled"
       /\ installP.state = "none"
       /\ InstallCommand \notin Started
       /\ exitCode = 0

C7_Witness ==
  /\ FailedBeforeInstall
  /\ ResetCommand \in Started
  /\ "HistoryReset" \notin Range(trace)

\* C8: in a run that ends successfully (the installer exited with code 0) the
\* history reset ran exactly once, before the installer was started, and the
\* nested repository holds exactly one commit, with the fixed message
C8_SingleCommit ==
  installP.state = "fulfilled" =>
    /\ Cardinality({ i \in DOMAIN procs : procs[i].cmd = ResetCommand }) = 1
    /\ \E i, j \in DOMAIN procs :
         i < j /\ procs[i].cmd = ResetCommand /\ procs[j].cmd = InstallCommand
    /\ "Cloned" \in Range(trace) /\ "HistoryReset" \in Range(trace)
    /\ gitLog = <<"create front-end app">>

C8_Witness ==
  /\ installP.state = "fulfilled"
  /\ Last(trace) = "Done"
  /\ closeEv.seen /\ closeEv.exited /\ closeEv.code = 0

\* C9: the promise of install stays pending until the child closes and then
\* settles with exactly one call: fulfilled when the exit code is 0, rejected
\* for every other close, with a value that has the command line as its only field
C9_InstallSettlesOnClose ==
  /\ pc = "install" => (installP.state = "pending" /\ settleCalls = <<>> /\ ~closeEv.seen)
  /\ settleCalls # <<>> => closeEv.seen
  /\ closeEv.seen =>
       /\ Len(settleCalls) = 1
       /\ installP = settleCalls[1]
       /\ installP.state = "fulfilled" <=> (closeEv.exited /\ closeEv.code = 0)
       /\ installP.state # "fulfilled" =>
            /\ installP.state = "rejected"
            /\ DOMAIN installP.value = {"command"}
            /\ installP.value.command = "npm install --save --loglevel error"

C9_Witness ==
  /\ closeEv.seen /\ ~closeEv.exited
  /\ installP.state = "rejected"

\* C10: a rejection of install is caught by the catch block of creatApp: it is
\* logged, creatApp fulfils, the exit status is 0, no process is started again
\* and nothing that was written is undone
C10_InstallRejectionCaught ==
  (installP.state = "rejected" /\ pc = "exited") =>
    /\ Last(console) = [stream |-> "error", what |-> "caught", err |-> installP.value]
    /\ creatAppP = "fulfilled"
    /\ exitCode = 0
    /\ Last(trace) = "Aborted"
    /\ \A i, j \in DOMAIN procs : procs[i].cmd = procs[j].cmd => i = j
    /\ fsOps = << [op |-> "ensureDirSync", path |-> TargetDir],
                  [op |-> "emptyDirSync", path |-> TargetDir] >>
    /\ GitHumanish(templateUrl) \in fs[CloneDir].entries
    /\ ResetCommand \in Started => gitLog = <<CommitMessage>>

C10_Witness ==
  /\ pc = "exited"
  /\ closeEv.seen /\ closeEv.exited /\ closeEv.code = 1
  /\ installP.state = "rejected"

\* C11: whenever creatApp has been started, in the flag form and in the
\* interactive form, the template name and the template url it was handed are
\* both defined, non-empty strings
C11_TemplatePairDefined ==
  trace # <<>> =>
    /\ templateName # Undefined /\ templateName # ""
    /\ templateUrl # Undefined /\ templateUrl # ""

\* C12: in the interactive form, when "custom" is selected and the name or the
\* url answer (or both) is blank, the corrective message is printed and the
\* process exits with status 0; each prompt was shown once and creatApp was
\* never started: no validation, no directory, no probe, no clone, no install
C12_BlankCustomExits ==
  (mode = "interactive" /\ selectAnswer = "custom" /\ cusUrl # Undefined
     /\ (cusName = "" \/ cusUrl = "")) =>
    /\ pc = "exited" /\ exitCode = 0
    /\ console = <<[stream |-> "log", what |-> "You must input your own template!!!"]>>
    /\ prompts = <<"templateSelectQuestion", "templateNameQuestion", "templateUrlQuestion">>
    /\ creatAppP = "none"
    /\ trace = <<>> /\ fsOps = <<>> /\ procs = <<>> /\ statted = <<>>
    /\ fs = fs0

C12_Witness ==
  /\ pc = "exited" /\ selectAnswer = "custom"
  /\ cusName # "" /\ cusUrl = ""
  /\ console # <<>>

\* the template key chosen with --template or at the menu, and the catalog it
\* is looked up in
ChosenKey == IF mode = "flag" THEN template ELSE selectAnswer
Catalog == IF mode = "flag" THEN templeUrls ELSE templateUrls

\* C13: for every catalog key chosen, with the flag or at the menu, creatApp
\* is started with exactly the pair (key, catalog[key]), and a clone that is
\* started clones from catalog[key]; the catalog is a constant, so looking the
\* key up again gives the same pair
C13_CatalogKeyResolves ==
  (pc \notin {"init", "select"} /\ projectName.defined /\ ChosenKey \in DOMAIN Catalog) =>
    /\ trace # <<>>
    /\ templateName = ChosenKey
    /\ templateUrl = Catalog[ChosenKey]
    /\ \A i \in DOMAIN procs : procs[i].cmd = "git clone" => procs[i].url = Catalog[ChosenKey]

C13_Witness ==
  /\ mode = "interactive" /\ selectAnswer = "react-frame-application"
  /\ templateUrl = "https://github.com/zwlzwt/react-frame-application.git"
  /\ "git clone" \in Started

\* C14: in the interactive form, when "custom" is selected and both answers
\* are non-blank, creatApp is started with exactly (name answer, url answer):
\* the clone is made from the url answer, and the subdirectory that is
\* stat-checked, history-reset and installed into is the one the name answer
\* names
C14_CustomPairUsed ==
  (mode = "interactive" /\ selectAnswer = "custom"
     /\ cusName # "" /\ cusUrl # Undefined /\ cusUrl # "") =>
    /\ trace # <<>>
    /\ templateName = cusName /\ templateUrl = cusUrl
    /\ \A i \in DOMAIN procs :
         /\ procs[i].cmd = "git clone" => procs[i].url = cusUrl
         /\ procs[i].cmd \in {ResetCommand, InstallCommand} =>
              procs[i].cwd = Append(CloneDir, cusName)
    /\ \A i \in DOMAIN statted : statted[i] = Append(CloneDir, cusName)

C14_Witness ==
  /\ mode = "interactive" /\ selectAnswer = "custom"
  /\ cusName = "foo" /\ cusUrl = "https://example.com/foo.git"
  /\ statted # <<>>
  /\ ResetCommand \in Started /\ InstallCommand \in Started

\* C15: when the project-name argument is missing, init prints the usage
\* guidance and the process exits with status 0, before any prompt is shown
\* and before any step of creatApp
C15_MissingNameUsage ==
  (~projectName.defined /\ pc # "init") =>
    /\ pc = "exited" /\ exitCode = 0
    /\ console = Usage
    /\ prompts = <<>> /\ selectAnswer = Undefined
    /\ creatAppP = "none"
    /\ trace = <<>> /\ fsOps = <<>> /\ procs = <<>> /\ statted = <<>>
    /\ fs = fs0

C15_Witness ==
  /\ ~projectName.defined /\ mode = "interactive"
  /\ pc = "exited" /\ console = Usage

\* C16: whenever install has been called for project name N and template T,
\* the working directory of the installer is the path N/T, and it is the
\* working directory the history reset ran in; for my-app and react-starter
\* it is my-app/react-starter under the working directory of the process
C16_InstallInNestedPath ==
  \A i \in DOMAIN procs :
    procs[i].cmd = InstallCommand =>
      /\ procs[i].cwd = Append(Resolve(cwd, projectName), templateName)
      /\ \A j \in DOMAIN procs : procs[j].cmd = ResetCommand => procs[j].cwd = procs[i].cwd

\* C17: no retries: in one invocation the version query, the clone, the
\* history-reset sequence and the installer are each started at most once,
\* whatever their outcome
C17_NoRetries ==
  /\ \A i \in DOMAIN procs :
       procs[i].cmd \in {"git --version", "git clone", ResetCommand, InstallCommand}
  /\ \A c \in Started : Cardinality({i \in DOMAIN procs : procs[i].cmd = c}) = 1
  /\ Len(statted) <= 1

C17_Witness ==
  /\ pc = "exited"
  /\ Len(procs) = 2 /\ procs[2].cmd = "git clone"
  /\ Last(trace) = "Aborted"
  /\ Last(console).what = "caught"

\* external processes started and not yet completed
InFlight == Len(procs) - completed

\* C18: at most one external process is in flight at any time: a process is in
\* flight exactly while creatApp is suspended on it, the next one is started
\* only when every earlier one has completed, and while one is in flight the
\* only step is its completion
C18_OneInFlight ==
  /\ [](/\ InFlight \in {0, 1}
        /\ InFlight = 1 <=> pc \in {"gitVersion", "clone", "reset", "install"})
  /\ [][/\ procs' # procs => (completed' = Len(procs) /\ Len(procs') = Len(procs) + 1)
        /\ InFlight = 1 => completed' = completed + 1]_vars

C18_Witness ==
  /\ pc = "install" /\ InFlight = 1
  /\ Len(procs) = 4 /\ completed = 3

\* C19: every run of creatApp ends in Done or Aborted when each external
\* process it starts completes: whatever the probe, the clone, the stat, the
\* reset and the installer answer, the process does not stay suspended
C19_Terminates ==
  (trace # <<>>) ~> (pc = "exited" /\ trace # <<>> /\ Last(trace) \in Terminal)

C19_Witness ==
  /\ pc = "exited" /\ closeEv.seen /\ ~closeEv.exited
  /\ Last(trace) = "Aborted"
  /\ completed = 4

\* C20: the menu and the catalog of the interactive form agree: the menu is
\* the catalog's keys in insertion order followed by "custom", so every choice
\* other than "custom" is a catalog key and every key is a choice; a choice
\* made at the menu therefore resolves to a defined url
C20_MenuMatchesCatalog ==
  /\ templateSelectQuestion = templateUrlsKeys \o <<"custom">>
  /\ { templateUrlsKeys[i] : i \in DOMAIN templateUrlsKeys } = DOMAIN templateUrls
  /\ \A i, j \in DOMAIN templateUrlsKeys : templateUrlsKeys[i] = templateUrlsKeys[j] => i = j
  /\ (mode = "interactive" /\ selectAnswer \notin {Undefined, "custom"}) =>
       /\ selectAnswer \in DOMAIN templateUrls
       /\ templateUrl # Undefined /\ templateUrl # ""

C20_Witness ==
  /\ mode = "interactive" /\ selectAnswer = "react-material-admin-template"
  /\ prompts = <<"templateSelectQuestion">>
  /\ templateUrl = "https://github.com/rafaelhz/react-material-admin-template.git"

\* C21: name validation is applied to the final segment of the requested name
\* resolved against the working directory, and to nothing else: creatApp gets
\* past checkAppName exactly when that segment is a valid package name,
\* whatever the leading segments are, and otherwise the process exits with
\* status 1
C21_BaseNameValidated ==
  trace # <<>> =>
    LET root == Resolve(cwd, projectName)
        final == IF root = <<>> THEN "" ELSE root[Len(root)]
        valid == validateProjectName(final).validForNewPackages
    IN /\ "NameValidated" \in Range(trace) <=> valid
       /\ ~valid => (pc = "exited" /\ exitCode = 1 /\ fsOps = <<>>)

C21_Witness ==
  /\ projectName.segs = <<"Bad Dir", "my-app">> /\ cwd = <<"w">>
  /\ "NameValidated" \in Range(trace)

\* C22: for every project name that passes validation, relative or absolute,
\* all steps act on one target: the directory that is ensured and emptied is
\* the working directory of the clone, and the path handed to fs.stat is the
\* working directory of the history reset and of the installer
C22_SameTarget ==
  /\ \A i \in DOMAIN procs, k \in DOMAIN fsOps :
       procs[i].cmd = "git clone" => procs[i].cwd = fsOps[k].path
  /\ \A i \in DOMAIN procs, k \in DOMAIN statted :
       procs[i].cmd \in {ResetCommand, InstallCommand} => procs[i].cwd = statted[k]

\* the run ended in Aborted after the clone was started: the clone, the stat,
\* the history reset or the installer failed
FailedAfterCloneStarted ==
  /\ pc = "exited" /\ "git clone" \in Started
  /\ Last(trace) = "Aborted"

\* C23: there is no rollback: the step in which the clone, the stat, the
\* history reset or the installer fails makes no filesystem call and changes
\* nothing on disk, so after such a run the only filesystem calls were the
\* ensure and the empty, the target directory exists, nothing of its earlier
\* contents is back, and the clone and the new history that were written are
\* still there
C23_NoRollback ==
  /\ [][("git clone" \in Started /\ trace' # trace /\ Last(trace') = "Aborted") =>
          (fs' = fs /\ fsOps' = fsOps)]_vars
  /\ [](FailedAfterCloneStarted =>
          /\ fsOps = << [op |-> "ensureDirSync", path |-> TargetDir],
                        [op |-> "emptyDirSync", path |-> TargetDir] >>
          /\ fs[TargetDir].kind = "dir"
          /\ fs[TargetDir].entries \subseteq {GitHumanish(templateUrl)}
          /\ \A p \in DOMAIN fs : p \notin {TargetDir, CloneDir} => fs[p] = fs0[p]
          /\ "Cloned" \in Range(trace) => GitHumanish(templateUrl) \in fs[CloneDir].entries
          /\ "HistoryReset" \in Range(trace) => gitLog = <<CommitMessage>>)

C23_Witness ==
  /\ FailedAfterCloneStarted
  /\ "HistoryReset" \in Range(trace)
  /\ fs0[TargetDir].kind = "dir" /\ fs0[TargetDir].entries # {}
  /\ fs[TargetDir].entries = {GitHumanish(templateUrl)}

====
